---- MODULE Spec2Model ----
(***************************************************************************)
(* Catalog index and deduplication engine of quick_s3_catalog:            *)
(* CatalogService (catalog-service.js), CatalogIndex (catalog-index.js),  *)
(* DeduplicationConfig, DatasetParser and Dataset.                        *)
(*                                                                         *)
(* Strings are sequences of one-character strings.  A JavaScript Map is a *)
(* sequence of entries in insertion order.  A nullable value is the empty *)
(* sequence (null) or a one-element sequence.                             *)
(***************************************************************************)
EXTENDS Integers, Sequences, FiniteSets, TLC

VARIABLES
  bucket,             \* the object store: the listing listObjects() returns
  svcCfg,             \* CatalogService.deduplicationConfig
  idxCfg,             \* CatalogIndex.deduplicationConfig
  cfgShared,          \* the two fields above reference the same object
  originalDatasets,   \* CatalogIndex.originalDatasets (Map id -> Dataset)
  sections,           \* CatalogIndex.sections (Map section -> Dataset[])
  searchableText,     \* CatalogIndex.searchableText (Map id -> string)
  deduplicationMetadata, \* CatalogIndex.deduplicationMetadata
  loadMetrics,        \* CatalogService.loadMetrics
  last,               \* the call that ran last: "load", "apply" or "config" (either
                      \* configuration setter); for a load or an apply, whether
                      \* the index pass threw and the object store requests made
  browser,            \* CatalogBrowser: isLoaded, allSections, catalogMetadata
  calls               \* loadCatalog calls in flight: where each one is, the
                      \* objects it listed, the datasets it parsed, and the
                      \* order in which the calls settled

vars == <<bucket, svcCfg, idxCfg, cfgShared, originalDatasets, sections,
          searchableText, deduplicationMetadata, loadMetrics, last, browser, calls>>

----------------------------------------------------------------------------
(* Bounds *)

\* timestamps of the listing are 0..MaxTime (milliseconds since the epoch)
MaxTime == 1

----------------------------------------------------------------------------
(* Values *)

\* JavaScript undefined; it is not a string (no string has this element)
Undefined == <<"undefined">>
\* `${undefined}`
UndefinedText == <<"u", "n", "d", "e", "f", "i", "n", "e", "d">>
\* null used as a Map key / section
NullSection == "null"
\* null id, null lastModified, null deduplicationInfo
Null == <<>>

\* object keys: <<section, file stem, suffix>> stands for
\* "section/stem.metadata.json"
Keys == { <<"s1", "a", ".metadata.json">>,
          <<"s1", "b", ".metadata.json">>,
          <<"s2", "c", ".metadata.json">> }

\* the tokens of keys in the order JavaScript's < puts them
TokenRank(t) ==
  CASE t = "s1" -> 1
    [] t = "s2" -> 2
    [] t = "a" -> 3
    [] t = "b" -> 4
    [] t = "c" -> 5
    [] t = ".metadata.json" -> 0
    [] OTHER -> 6

\* titles found in metadata files ("name")
Titles == { <<"x">>, <<"X", " ">>, <<>> }
Description == <<"d">>

\* a metadata payload: json = FALSE is text JSON.parse rejects
Payloads ==
  { [json |-> TRUE, name |-> t, description |-> Description] : t \in Titles }
  \cup { [json |-> TRUE, name |-> Undefined, description |-> Undefined],
         [json |-> FALSE, name |-> Undefined, description |-> Undefined] }

\* the body '{}'
EmptyObject == [json |-> TRUE, name |-> Undefined, description |-> Undefined]

\* an object getObject fails to fetch: there is no body
Unfetched == [json |-> FALSE, name |-> Null, description |-> Null]

\* the listing gives every object a valid Date; <<t>> is the Date of getTime() = t
LastModifieds == { <<t>> : t \in 0..MaxTime }

S3Objects == [Key : Keys, LastModified : LastModifieds, content : Payloads]

----------------------------------------------------------------------------
(* Strings *)

\* String.prototype.toLowerCase, one character
LowerChar(c) == IF c = "X" THEN "x" ELSE IF c = "I" THEN "i" ELSE IF c = "M" THEN "m" ELSE c

ToLowerCase(s) == [i \in 1..Len(s) |-> LowerChar(s[i])]

\* String.prototype.trim
Trim(s) ==
  LET solid == {i \in 1..Len(s) : s[i] # " "}
  IN IF solid = {} THEN <<>>
     ELSE LET lo == CHOOSE i \in solid : \A j \in solid : i <= j
              hi == CHOOSE i \in solid : \A j \in solid : j <= i
          IN SubSeq(s, lo, hi)

\* String.prototype.includes
Includes(text, q) ==
  \E i \in 1..(Len(text) + 1) :
    /\ i + Len(q) - 1 <= Len(text)
    /\ SubSeq(text, i, i + Len(q) - 1) = q

\* `${v}` of a string or undefined
TemplateText(v) == IF v = Undefined THEN UndefinedText ELSE v

\* a < b on strings, here on token sequences
RECURSIVE StringLess(_, _)
StringLess(a, b) ==
  IF b = <<>> THEN FALSE
  ELSE IF a = <<>> THEN TRUE
  ELSE IF TokenRank(Head(a)) # TokenRank(Head(b))
       THEN TokenRank(Head(a)) < TokenRank(Head(b))
       ELSE StringLess(Tail(a), Tail(b))

----------------------------------------------------------------------------
(* DeduplicationConfig *)

DeduplicationConfig(enabled, keepLatest, caseSensitive) ==
  [enabled |-> enabled, strategy |-> "title-based",
   keepLatest |-> keepLatest, caseSensitive |-> caseSensitive]

createDefault == DeduplicationConfig(FALSE, TRUE, FALSE)

createEnabled == DeduplicationConfig(TRUE, TRUE, FALSE)

\* configurations that pass _validate
ValidConfigs ==
  { DeduplicationConfig(e, k, c) : e \in BOOLEAN, k \in BOOLEAN, c \in BOOLEAN }

allowedFields == {"enabled", "strategy", "keepLatest", "caseSensitive"}

\* arguments of setDeduplicationConfig that are not DeduplicationConfig
\* instances: null or undefined (isObject = FALSE) and plain objects, whose
\* field values are written as text ("true" and "false" are the booleans)
ConfigObject(isObject, enabled, strategy, keepLatest, caseSensitive) ==
  [isObject |-> isObject, enabled |-> enabled, strategy |-> strategy,
   keepLatest |-> keepLatest, caseSensitive |-> caseSensitive]

ConfigObjects ==
  { ConfigObject(FALSE, "true", "title-based", "true", "false"),
    ConfigObject(TRUE, "true", "title-based", "true", "false"),
    ConfigObject(TRUE, "not-a-boolean", "title-based", "true", "false"),
    ConfigObject(TRUE, "false", "fuzzy", "invalid", "false") }

\* fromObject that only rejects what is not an object
fromObjectThrows_OnlyNonObjects(obj) == ~obj.isObject

\* fromObject(obj) throws: obj is no object, or the constructor's _validate
\* rejects a field
fromObjectThrows(obj) ==
  \/ ~obj.isObject
  \/ obj.enabled \notin {"true", "false"}
  \/ obj.strategy # "title-based"
  \/ obj.keepLatest \notin {"true", "false"}
  \/ obj.caseSensitive \notin {"true", "false"}

\* fromObject(obj) when it returns
fromObject(obj) ==
  DeduplicationConfig(obj.enabled = "true", obj.keepLatest = "true",
                      obj.caseSensitive = "true")

\* update(updates): the fields after the loop over Object.entries(updates),
\* which throws at the first unknown field; boolean values pass _validate
RECURSIVE updateFields(_, _)
updateFields(cfg, updates) ==
  IF updates = <<>> THEN [cfg |-> cfg, threw |-> FALSE]
  ELSE IF Head(updates).key \in allowedFields
       THEN updateFields([cfg EXCEPT ![Head(updates).key] = Head(updates).value],
                         Tail(updates))
       ELSE [cfg |-> cfg, threw |-> TRUE]

\* normalizeTitle throws on a title that is not a string
normalizeTitleThrows(title) == title = Undefined

\* normalizeTitle lower-casing whatever caseSensitive says
normalizeTitle_AlwaysLowerCase(cfg, title) == ToLowerCase(Trim(title))

\* normalizeTitle(title): trim, then toLowerCase unless caseSensitive
normalizeTitle(cfg, title) ==
  IF cfg.caseSensitive THEN Trim(title) ELSE ToLowerCase(Trim(title))

----------------------------------------------------------------------------
(* Dataset and DatasetParser *)

Dataset(id, title, description, isValid, section, lastModified) ==
  [id |-> id, title |-> title, description |-> description,
   isValid |-> isValid, section |-> section, lastModified |-> lastModified,
   deduplicationInfo |-> Null]

\* setDeduplicationInfo storing Number(duplicateCount) as it is given
setDeduplicationInfo_RawCount(d, isDuplicate, duplicateCount, keptInsteadId) ==
  [d EXCEPT !.deduplicationInfo =
     << [isDuplicate |-> isDuplicate,
         duplicateCount |-> duplicateCount,
         keptInsteadId |-> keptInsteadId] >>]

\* setDeduplicationInfo adding the count to the one the record already carries
setDeduplicationInfo_Accumulating(d, isDuplicate, duplicateCount, keptInsteadId) ==
  [d EXCEPT !.deduplicationInfo =
     << [isDuplicate |-> isDuplicate,
         duplicateCount |->
           (IF duplicateCount = 0 THEN 1 ELSE duplicateCount)
           + (IF d.deduplicationInfo = Null THEN 0
              ELSE d.deduplicationInfo[1].duplicateCount),
         keptInsteadId |-> keptInsteadId] >>]

\* Number(duplicateCount) || 1
setDeduplicationInfo(d, isDuplicate, duplicateCount, keptInsteadId) ==
  [d EXCEPT !.deduplicationInfo =
     << [isDuplicate |-> isDuplicate,
         duplicateCount |-> IF duplicateCount = 0 THEN 1 ELSE duplicateCount,
         keptInsteadId |-> keptInsteadId] >>]

\* objectKey.replace(/\.metadata\.json$/, '')
StripSuffix(key) ==
  IF Len(key) > 0 /\ key[Len(key)] = ".metadata.json"
  THEN SubSeq(key, 1, Len(key) - 1) ELSE key

InvalidTitle == <<"I", "M">>
ErrorMessage == <<"e">>

\* DatasetParser.parse(metadata, objectKey, s3ObjectInfo)
parse(obj) ==
  IF obj.content.json
  THEN Dataset(StripSuffix(obj.Key), obj.content.name, obj.content.description,
               TRUE, obj.Key[1], obj.LastModified)
  ELSE Dataset(obj.Key, InvalidTitle, ErrorMessage,
               FALSE, NullSection, obj.LastModified)

\* the body of the loop of loadCatalog for one metadata object: getObject and
\* parse, and parse('{}') in the catch when getObject threw
processMetadataObject(obj) ==
  IF obj.content = Unfetched
  THEN parse([obj EXCEPT !.content = EmptyObject])
  ELSE parse(obj)

----------------------------------------------------------------------------
(* CatalogIndex: pure parts *)

\* new Map(); list.forEach(d => map.set(d.id, d)); the values in Map order
RECURSIVE MapById(_, _)
MapById(list, map) ==
  IF list = <<>> THEN map
  ELSE LET d == Head(list)
           hit == {i \in 1..Len(map) : map[i].id = d.id}
       IN MapById(Tail(list),
                  IF hit = {} THEN Append(map, d)
                  ELSE [i \in 1..Len(map) |-> IF i \in hit THEN d ELSE map[i]])

\* the sections Map that update() builds: entries [section, datasets]
RECURSIVE BySection(_, _)
BySection(list, map) ==
  IF list = <<>> THEN map
  ELSE LET d == Head(list)
           hit == {i \in 1..Len(map) : map[i].section = d.section}
       IN BySection(Tail(list),
                    IF hit = {} THEN Append(map, [section |-> d.section, datasets |-> <<d>>])
                    ELSE [i \in 1..Len(map) |->
                            IF i \in hit
                            THEN [map[i] EXCEPT !.datasets = Append(@, d)]
                            ELSE map[i]])

\* `${dataset.title} ${dataset.description}`.toLowerCase()
TextOf(d) ==
  ToLowerCase(TemplateText(d.title) \o <<" ">> \o TemplateText(d.description))

\* the searchableText Map that update() builds (the last set of an id wins)
TextById(list) ==
  LET ids == {list[i].id : i \in 1..Len(list)}
  IN [id \in ids |->
        LET k == CHOOSE i \in 1..Len(list) :
                   /\ list[i].id = id
                   /\ \A j \in 1..Len(list) : list[j].id = id => j <= i
        IN TextOf(list[k])]

\* all datasets of a sections Map, section by section
RECURSIVE Flatten(_)
Flatten(map) ==
  IF map = <<>> THEN <<>> ELSE Head(map).datasets \o Flatten(Tail(map))

\* titleGroups keyed by the title as written instead of normalizeTitle(title)
RECURSIVE titleGroups_RawTitle(_, _, _, _)
titleGroups_RawTitle(cfg, datasets, i, groups) ==
  IF i > Len(datasets) THEN groups
  ELSE LET hit == {g \in 1..Len(groups) : groups[g].title = datasets[i].title}
       IN titleGroups_RawTitle(cfg, datasets, i + 1,
            IF hit = {} THEN Append(groups, [title |-> datasets[i].title, members |-> <<i>>])
            ELSE [g \in 1..Len(groups) |->
                    IF g \in hit
                    THEN [groups[g] EXCEPT !.members = Append(@, i)]
                    ELSE groups[g]])

\* the title groups of applyDeduplication, in Map order; a group lists the
\* positions of its members in the input
RECURSIVE titleGroups(_, _, _, _)
titleGroups(cfg, datasets, i, groups) ==
  IF i > Len(datasets) THEN groups
  ELSE LET normalizedTitle == normalizeTitle(cfg, datasets[i].title)
           hit == {g \in 1..Len(groups) : groups[g].title = normalizedTitle}
       IN titleGroups(cfg, datasets, i + 1,
            IF hit = {} THEN Append(groups, [title |-> normalizedTitle, members |-> <<i>>])
            ELSE [g \in 1..Len(groups) |->
                    IF g \in hit
                    THEN [groups[g] EXCEPT !.members = Append(@, i)]
                    ELSE groups[g]])

\* lastModified ? lastModified.getTime() : 0
TimeOf(lastModified) == IF lastModified = Null THEN 0 ELSE lastModified[1]

\* keepLater without the tie-breaker on the id: a tie keeps the earlier one
keepLater_NoTieBreak(datasets, latest, current) ==
  IF TimeOf(datasets[current].lastModified) > TimeOf(datasets[latest].lastModified)
  THEN current ELSE latest

\* one step of the reduce of selectDatasetToKeep
keepLater(datasets, latest, current) ==
  LET latestTime == TimeOf(datasets[latest].lastModified)
      currentTime == TimeOf(datasets[current].lastModified)
  IN IF currentTime > latestTime THEN current
     ELSE IF currentTime = latestTime
          THEN (IF StringLess(datasets[latest].id, datasets[current].id)
                THEN latest ELSE current)
          ELSE latest

RECURSIVE reduceGroup(_, _, _, _)
reduceGroup(datasets, members, k, latest) ==
  IF k > Len(members) THEN latest
  ELSE reduceGroup(datasets, members, k + 1, keepLater(datasets, latest, members[k]))

\* selectDatasetToKeep(duplicateGroup): the position of the dataset kept
selectDatasetToKeep(cfg, datasets, members) ==
  IF Len(members) = 1 THEN members[1]
  ELSE IF cfg.keepLatest THEN reduceGroup(datasets, members, 2, members[1])
  ELSE members[1]

\* the dataset at position i after the annotations of applyDeduplication
annotate(cfg, datasets, groups, i) ==
  LET g == CHOOSE g \in 1..Len(groups) : \E k \in 1..Len(groups[g].members) :
                                            groups[g].members[k] = i
      members == groups[g].members
      kept == selectDatasetToKeep(cfg, datasets, members)
  IN IF Len(members) = 1 THEN setDeduplicationInfo(datasets[i], FALSE, 0, Null)
     ELSE IF i = kept THEN setDeduplicationInfo(datasets[i], FALSE, Len(members), Null)
     ELSE IF datasets[i].id # datasets[kept].id
          THEN setDeduplicationInfo(datasets[i], TRUE, Len(members), Null)
          ELSE datasets[i]

\* the entries of the duplicatesFound Map of applyDeduplication
RECURSIVE removedEntries(_, _, _, _, _)
removedEntries(cfg, datasets, groups, g, map) ==
  IF g > Len(groups) THEN map
  ELSE LET members == groups[g].members
           kept == selectDatasetToKeep(cfg, datasets, members)
           removed == SelectSeq(members, LAMBDA i : datasets[i].id # datasets[kept].id)
           entries == [k \in 1..Len(removed) |->
                         [id |-> datasets[removed[k]].id,
                          title |-> datasets[removed[k]].title,
                          lastModified |-> datasets[removed[k]].lastModified,
                          keptInsteadId |-> datasets[kept].id]]
       IN removedEntries(cfg, datasets, groups, g + 1,
                         IF Len(members) = 1 THEN map ELSE MapById(entries, map))

\* totalDuplicatesRemoved counting one removal for each group of duplicates
RECURSIVE totalDuplicatesRemoved_OnePerGroup(_, _, _, _)
totalDuplicatesRemoved_OnePerGroup(cfg, datasets, groups, g) ==
  IF g > Len(groups) THEN 0
  ELSE (IF Len(groups[g].members) = 1 THEN 0 ELSE 1)
       + totalDuplicatesRemoved_OnePerGroup(cfg, datasets, groups, g + 1)

\* totalDuplicatesRemoved of applyDeduplication
RECURSIVE totalDuplicatesRemoved(_, _, _, _)
totalDuplicatesRemoved(cfg, datasets, groups, g) ==
  IF g > Len(groups) THEN 0
  ELSE LET members == groups[g].members
           kept == selectDatasetToKeep(cfg, datasets, members)
           removed == SelectSeq(members, LAMBDA i : datasets[i].id # datasets[kept].id)
       IN (IF Len(members) = 1 THEN 0 ELSE Len(removed))
          + totalDuplicatesRemoved(cfg, datasets, groups, g + 1)

EmptyMetadata ==
  [enabled |-> FALSE, duplicatesFound |-> 0, duplicatesRemoved |-> 0,
   removedDuplicates |-> <<>>]

\* applyDeduplication(datasets) with deduplicationConfig = cfg, enabled:
\*   threw      normalizeTitle threw while grouping (nothing was changed)
\*   annotated  the input datasets after setDeduplicationInfo
\*   kept       deduplicatedDatasets, the return value
\*   metadata   the new deduplicationMetadata
applyDeduplication(cfg, datasets) ==
  IF \E i \in 1..Len(datasets) : normalizeTitleThrows(datasets[i].title)
  THEN [threw |-> TRUE, annotated |-> datasets, kept |-> <<>>,
        metadata |-> EmptyMetadata]
  ELSE LET groups == titleGroups(cfg, datasets, 1, <<>>)
           annotated == [i \in 1..Len(datasets) |-> annotate(cfg, datasets, groups, i)]
           removedDuplicates == removedEntries(cfg, datasets, groups, 1, <<>>)
       IN [threw |-> FALSE,
           annotated |-> annotated,
           kept |-> [g \in 1..Len(groups) |->
                       annotated[selectDatasetToKeep(cfg, datasets, groups[g].members)]],
           metadata |-> [enabled |-> TRUE,
                         duplicatesFound |-> Len(removedDuplicates),
                         duplicatesRemoved |-> totalDuplicatesRemoved(cfg, datasets, groups, 1),
                         removedDuplicates |-> removedDuplicates]]

----------------------------------------------------------------------------
(* CatalogIndex: state *)

\* update(newDatasets): the new sections and searchableText
update(newDatasets) ==
  [sections |-> BySection(newDatasets, <<>>),
   searchableText |-> TextById(newDatasets)]

\* updateWithDeduplication(newDatasets, cfg): the index fields when the call
\* returns or throws
updateWithDeduplication(newDatasets, cfg) ==
  LET r == applyDeduplication(cfg, newDatasets)
  IN IF cfg.enabled /\ r.threw
     THEN [threw |-> TRUE,
           originalDatasets |-> MapById(newDatasets, <<>>),
           sections |-> sections,
           searchableText |-> searchableText,
           deduplicationMetadata |-> deduplicationMetadata]
     ELSE IF cfg.enabled
     THEN [threw |-> FALSE,
           originalDatasets |-> MapById(r.annotated, <<>>),
           sections |-> update(r.kept).sections,
           searchableText |-> update(r.kept).searchableText,
           deduplicationMetadata |-> r.metadata]
     ELSE [threw |-> FALSE,
           originalDatasets |-> MapById(newDatasets, <<>>),
           sections |-> update(newDatasets).sections,
           searchableText |-> update(newDatasets).searchableText,
           deduplicationMetadata |-> EmptyMetadata]

\* getAllOriginalDatasets reading the active view instead of originalDatasets
getAllOriginalDatasets_ActiveView == Flatten(sections)

\* getAllOriginalDatasets()
getAllOriginalDatasets == originalDatasets

----------------------------------------------------------------------------
(* The object store *)

\* listings: objects with pairwise distinct keys, in key order
Buckets ==
  { b \in UNION { [1..n -> S3Objects] : n \in 0..Cardinality(Keys) } :
      \A i \in 1..(Len(b) - 1) : StringLess(b[i].Key, b[i + 1].Key) }

----------------------------------------------------------------------------
(* CatalogService *)

\* two loadCatalog calls, neither made yet
Loads == {1, 2}
NoCalls ==
  [pc |-> [p \in Loads |-> "idle"],
   objects |-> [p \in Loads |-> <<>>],
   datasets |-> [p \in Loads |-> <<>>],
   settled |-> <<>>,
   overlapped |-> FALSE]

\* the fields of a CatalogBrowser after its constructor
NewBrowser == [isLoaded |-> FALSE, allSections |-> <<>>, catalogMetadata |-> Null]

EmptyMetrics ==
  [totalObjects |-> 0, metadataFiles |-> 0, validDatasets |-> 0, invalidDatasets |-> 0]

Init ==
  /\ bucket \in Buckets
  /\ svcCfg \in {createDefault, createEnabled}
  /\ idxCfg = createDefault
  /\ cfgShared = FALSE
  /\ originalDatasets = <<>>
  /\ sections = <<>>
  /\ searchableText = <<>>
  /\ deduplicationMetadata = EmptyMetadata
  /\ loadMetrics = EmptyMetrics
  /\ last = [op |-> "new", passThrew |-> FALSE, requests |-> 0]
  /\ browser = NewBrowser
  /\ calls = NoCalls

\* the index fields after index.updateWithDeduplication(datasets, svcCfg)
IndexUpdated(datasets) ==
  LET u == updateWithDeduplication(datasets, svcCfg)
  IN /\ idxCfg' = svcCfg
     /\ cfgShared' = TRUE
     /\ originalDatasets' = u.originalDatasets
     /\ sections' = u.sections
     /\ searchableText' = u.searchableText
     /\ deduplicationMetadata' = u.deduplicationMetadata

\* loadCatalog(): one listObjects and one getObject per metadata object
loadCatalog ==
  /\ IF Len(bucket) = 0
     THEN /\ last' = [op |-> "load", passThrew |-> FALSE, requests |-> 1]
          /\ UNCHANGED <<idxCfg, cfgShared, originalDatasets, sections, searchableText,
                         deduplicationMetadata, loadMetrics>>
     ELSE LET datasets == [i \in 1..Len(bucket) |-> processMetadataObject(bucket[i])]
          IN /\ loadMetrics' =
                  [totalObjects |-> Len(bucket),
                   metadataFiles |-> Len(bucket),
                   validDatasets |-> Len(SelectSeq(datasets, LAMBDA d : d.isValid)),
                   invalidDatasets |-> Len(SelectSeq(datasets, LAMBDA d : ~d.isValid))]
             /\ IndexUpdated(datasets)
             /\ last' = [op |-> "load",
                         passThrew |-> updateWithDeduplication(datasets, svcCfg).threw,
                         requests |-> 1 + Len(bucket)]
  /\ UNCHANGED <<bucket, svcCfg>>

\* setDeduplicationConfig that also runs the index pass under the new
\* configuration
setDeduplicationConfig_Reapplying(config) ==
  LET u == updateWithDeduplication(originalDatasets, config)
  IN /\ svcCfg' = config
     /\ idxCfg' = config
     /\ cfgShared' = TRUE
     /\ originalDatasets' = u.originalDatasets
     /\ sections' = u.sections
     /\ searchableText' = u.searchableText
     /\ deduplicationMetadata' = u.deduplicationMetadata
     /\ last' = [op |-> "config", passThrew |-> FALSE, requests |-> 0]
     /\ UNCHANGED <<bucket, loadMetrics>>

\* setDeduplicationConfig(config) with a configuration that validates
setDeduplicationConfig(config) ==
  /\ svcCfg' = config
  /\ idxCfg' = config
  /\ cfgShared' = TRUE
  /\ last' = [op |-> "config", passThrew |-> FALSE, requests |-> 0]
  /\ UNCHANGED <<bucket, originalDatasets, sections, searchableText,
                 deduplicationMetadata, loadMetrics>>

\* setDeduplicationConfig(config) with a plain object, null or undefined:
\* fromObject throws before anything is assigned, or returns the instance
\* that is stored
setDeduplicationConfigFromObject(obj) ==
  IF fromObjectThrows(obj)
  THEN /\ last' = [op |-> "config", passThrew |-> FALSE, requests |-> 0]
       /\ UNCHANGED <<bucket, svcCfg, idxCfg, cfgShared, originalDatasets, sections,
                      searchableText, deduplicationMetadata, loadMetrics>>
  ELSE setDeduplicationConfig(fromObject(obj))

\* arguments of updateDeduplicationConfig: one boolean field, or enabled
\* followed by a field the configuration does not have
Updates ==
  { <<[key |-> k, value |-> v]>> : k \in {"enabled", "caseSensitive"}, v \in BOOLEAN }
  \cup { <<[key |-> "enabled", value |-> v], [key |-> "bogus", value |-> TRUE]>> :
           v \in BOOLEAN }

\* updateDeduplicationConfig(updates): update() changes the service's object
\* in place, so the index sees the change when it holds the same object
updateDeduplicationConfig(updates) ==
  LET r == updateFields(svcCfg, updates)
  IN /\ svcCfg' = r.cfg
     /\ idxCfg' = IF r.threw /\ ~cfgShared THEN idxCfg ELSE r.cfg
     /\ cfgShared' = IF r.threw THEN cfgShared ELSE TRUE
     /\ last' = [op |-> "config", passThrew |-> FALSE, requests |-> 0]
     /\ UNCHANGED <<bucket, originalDatasets, sections, searchableText,
                    deduplicationMetadata, loadMetrics>>

\* applyDeduplication()
applyDeduplicationCall ==
  /\ IndexUpdated(getAllOriginalDatasets)
  /\ last' = [op |-> "apply",
              passThrew |-> updateWithDeduplication(getAllOriginalDatasets, svcCfg).threw,
              requests |-> 0]
  /\ UNCHANGED <<bucket, svcCfg, loadMetrics>>

\* the calls of a program that uses the service directly
Next ==
  \/ loadCatalog /\ UNCHANGED <<browser, calls>>
  \/ \E config \in ValidConfigs : setDeduplicationConfig(config) /\ UNCHANGED <<browser, calls>>
  \/ \E obj \in ConfigObjects : setDeduplicationConfigFromObject(obj) /\ UNCHANGED <<browser, calls>>
  \/ \E updates \in Updates : updateDeduplicationConfig(updates) /\ UNCHANGED <<browser, calls>>
  \/ applyDeduplicationCall /\ UNCHANGED <<browser, calls>>

Spec == Init /\ [][Next]_vars

----------------------------------------------------------------------------
(* The service on listings in which two keys give the same id *)

\* "s1/a.metadata.json.metadata.json" parses to the id "s1/a.metadata.json",
\* which is also the id of "s1/a.metadata.json" when its payload fails to parse
SuffixedKeys == { <<"s1", "a", ".metadata.json">>,
                  <<"s1", "a", ".metadata.json", ".metadata.json">>,
                  <<"s2", "c", ".metadata.json">> }

\* payloads that parse, one of them carrying the parser's placeholder as its
\* name, and a payload that does not parse
SuffixedPayloads ==
  { [json |-> TRUE, name |-> t, description |-> Description] :
      t \in { <<"x">>, InvalidTitle } }
  \cup { [json |-> FALSE, name |-> Undefined, description |-> Undefined] }

SuffixedBuckets ==
  { b \in UNION { [1..n -> [Key : SuffixedKeys, LastModified : LastModifieds,
                            content : SuffixedPayloads]] :
                    n \in 0..Cardinality(SuffixedKeys) } :
      \A i \in 1..(Len(b) - 1) : StringLess(b[i].Key, b[i + 1].Key) }

InitSuffixed ==
  /\ bucket \in SuffixedBuckets
  /\ svcCfg \in {createDefault, createEnabled}
  /\ idxCfg = createDefault
  /\ cfgShared = FALSE
  /\ originalDatasets = <<>>
  /\ sections = <<>>
  /\ searchableText = <<>>
  /\ deduplicationMetadata = EmptyMetadata
  /\ loadMetrics = EmptyMetrics
  /\ last = [op |-> "new", passThrew |-> FALSE, requests |-> 0]
  /\ browser = NewBrowser
  /\ calls = NoCalls

SpecSuffixed == InitSuffixed /\ [][Next]_vars

----------------------------------------------------------------------------
(* The service on listings with objects that cannot be fetched *)

\* payloads: one that parses, one that does not, and no payload at all
FetchPayloads ==
  { [json |-> TRUE, name |-> <<"x">>, description |-> Description],
    [json |-> FALSE, name |-> Undefined, description |-> Undefined],
    Unfetched }

FetchBuckets ==
  { b \in UNION { [1..n -> [Key : Keys, LastModified : LastModifieds,
                            content : FetchPayloads]] :
                    n \in 0..Cardinality(Keys) } :
      \A i \in 1..(Len(b) - 1) : StringLess(b[i].Key, b[i + 1].Key) }

InitFetch ==
  /\ bucket \in FetchBuckets
  /\ svcCfg \in {createDefault, createEnabled}
  /\ idxCfg = createDefault
  /\ cfgShared = FALSE
  /\ originalDatasets = <<>>
  /\ sections = <<>>
  /\ searchableText = <<>>
  /\ deduplicationMetadata = EmptyMetadata
  /\ loadMetrics = EmptyMetrics
  /\ last = [op |-> "new", passThrew |-> FALSE, requests |-> 0]
  /\ browser = NewBrowser
  /\ calls = NoCalls

SpecFetch == InitFetch /\ [][Next]_vars

----------------------------------------------------------------------------
(* The service with updateIndex among its calls *)

\* updateIndex(datasets): index.update(datasets) and nothing else
updateIndex(datasets) ==
  /\ sections' = update(datasets).sections
  /\ searchableText' = update(datasets).searchableText
  /\ last' = [op |-> "update", passThrew |-> FALSE, requests |-> 0]
  /\ UNCHANGED <<bucket, svcCfg, idxCfg, cfgShared, originalDatasets,
                 deduplicationMetadata, loadMetrics>>

\* lists handed to updateIndex: the first n datasets parsed from the listing
IndexInputs ==
  { [i \in 1..n |-> processMetadataObject(bucket[i])] : n \in 0..Len(bucket) }

NextIndex ==
  \/ Next
  \/ \E datasets \in IndexInputs : updateIndex(datasets) /\ UNCHANGED <<browser, calls>>

SpecIndex == InitFetch /\ [][NextIndex]_vars

----------------------------------------------------------------------------
(* The service on an object store that loses its objects *)

\* the metadata objects are deleted from the bucket: the next listing is empty
removeObjects ==
  /\ bucket # <<>>
  /\ bucket' = <<>>
  /\ last' = [op |-> "store", passThrew |-> FALSE, requests |-> 0]
  /\ UNCHANGED <<svcCfg, idxCfg, cfgShared, originalDatasets, sections, searchableText,
                 deduplicationMetadata, loadMetrics>>

NextStore ==
  \/ Next
  \/ removeObjects /\ UNCHANGED <<browser, calls>>

SpecStore == InitFetch /\ [][NextStore]_vars

----------------------------------------------------------------------------
(* Two loadCatalog calls that overlap *)

\* payloads: a metadata file with a name and one without
OverlapPayloads ==
  { [json |-> TRUE, name |-> <<"x">>, description |-> Description], EmptyObject }

\* the longest listing of an overlapping load
MaxListing == 2

OverlapBuckets ==
  { b \in UNION { [1..n -> [Key : Keys, LastModified : LastModifieds,
                            content : OverlapPayloads]] : n \in 0..MaxListing } :
      \A i \in 1..(Len(b) - 1) : StringLess(b[i].Key, b[i + 1].Key) }

InitOverlap ==
  /\ bucket \in OverlapBuckets
  /\ svcCfg \in {createDefault, createEnabled}
  /\ idxCfg = createDefault
  /\ cfgShared = FALSE
  /\ originalDatasets = <<>>
  /\ sections = <<>>
  /\ searchableText = <<>>
  /\ deduplicationMetadata = EmptyMetadata
  /\ loadMetrics = EmptyMetrics
  /\ last = [op |-> "new", passThrew |-> FALSE, requests |-> 0]
  /\ browser = NewBrowser
  /\ calls = NoCalls

\* the last object of the listing is deleted from the bucket
removeLastObject ==
  /\ bucket # <<>>
  /\ bucket' = SubSeq(bucket, 1, Len(bucket) - 1)
  /\ UNCHANGED <<svcCfg, idxCfg, cfgShared, originalDatasets, sections, searchableText,
                 deduplicationMetadata, loadMetrics, last, browser, calls>>

\* loadCatalog of call p up to the listing: await listObjects(), and the
\* early return of the empty response when it lists no metadata file
loadList(p) ==
  /\ calls.pc[p] = "idle"
  /\ LET overlaps == \E q \in Loads : calls.pc[q] = "fetching"
     IN calls' =
          IF Len(bucket) = 0
          THEN [calls EXCEPT !.pc[p] = "done",
                             !.settled = Append(@, [load |-> p, resolved |-> TRUE]),
                             !.overlapped = @ \/ overlaps]
          ELSE [calls EXCEPT !.pc[p] = "fetching", !.objects[p] = bucket,
                             !.overlapped = @ \/ overlaps]
  /\ UNCHANGED <<bucket, svcCfg, idxCfg, cfgShared, originalDatasets, sections,
                 searchableText, deduplicationMetadata, loadMetrics, last, browser>>

\* getObject(key) for a listed object: it rejects when the object is gone
getObject(obj) ==
  IF \E i \in 1..Len(bucket) : bucket[i].Key = obj.Key
  THEN obj ELSE [obj EXCEPT !.content = Unfetched]

\* loadCatalog of call p from the fetches on: the loop over the listed
\* objects and, after the last await, loadMetrics, the index pass and the
\* response in one run
loadFinish(p) ==
  /\ calls.pc[p] = "fetching"
  /\ LET objects == calls.objects[p]
         datasets == [i \in 1..Len(objects) |-> processMetadataObject(getObject(objects[i]))]
         threw == updateWithDeduplication(datasets, svcCfg).threw
     IN /\ loadMetrics' =
             [totalObjects |-> Len(objects),
              metadataFiles |-> Len(objects),
              validDatasets |-> Len(SelectSeq(datasets, LAMBDA d : d.isValid)),
              invalidDatasets |-> Len(SelectSeq(datasets, LAMBDA d : ~d.isValid))]
        /\ IndexUpdated(datasets)
        /\ last' = [op |-> "load", passThrew |-> threw, requests |-> 1 + Len(objects)]
        /\ calls' = [calls EXCEPT
                       !.pc[p] = IF threw THEN "failed" ELSE "done",
                       !.datasets[p] = datasets,
                       !.settled = Append(@, [load |-> p, resolved |-> ~threw])]
  /\ UNCHANGED <<bucket, svcCfg, browser>>

NextOverlap ==
  \/ \E p \in Loads : loadList(p)
  \/ \E p \in Loads : loadFinish(p)
  \/ \E config \in {createDefault, createEnabled} :
       setDeduplicationConfig(config) /\ UNCHANGED <<browser, calls>>
  \/ applyDeduplicationCall /\ UNCHANGED <<browser, calls>>
  \/ removeLastObject

SpecOverlap == InitOverlap /\ [][NextOverlap]_vars

----------------------------------------------------------------------------
(* CatalogBrowser: the service driven by the browser UI *)

\* _buildResponseMetadata(): the counters of a response
ResponseMetadata(metrics, cfg, metadata) ==
  << [totalDatasets |-> metrics.validDatasets + metrics.invalidDatasets,
      deduplicationEnabled |-> cfg.enabled,
      duplicatesRemoved |-> metadata.duplicatesRemoved,
      duplicatesFound |-> metadata.duplicatesFound] >>

\* CatalogBrowser.load(): loadCatalog and, when it resolves, the response
\* kept in allSections and catalogMetadata
browserLoad ==
  /\ loadCatalog
  /\ UNCHANGED calls
  /\ browser' =
       IF last'.passThrew THEN browser
       ELSE IF Len(bucket) = 0
       THEN [isLoaded |-> TRUE, allSections |-> <<>>,
             catalogMetadata |-> ResponseMetadata(EmptyMetrics, svcCfg, EmptyMetadata)]
       ELSE [isLoaded |-> TRUE, allSections |-> sections',
             catalogMetadata |->
               ResponseMetadata(loadMetrics', svcCfg, deduplicationMetadata')]

\* the display options the SearchFilter reports
Options == [enableDeduplication : BOOLEAN, caseSensitive : BOOLEAN]

\* CatalogBrowser.handleOptionsChange(options), _updateCatalogConfigurations
\* included: the configuration object of the service is updated in place and
\* applyDeduplication() is called when enableDeduplication differs from
\* catalogMetadata.deduplicationEnabled
handleOptionsChange(options) ==
  IF ~browser.isLoaded
  THEN /\ last' = [op |-> "options", passThrew |-> FALSE, requests |-> 0]
       /\ UNCHANGED <<bucket, svcCfg, idxCfg, cfgShared, originalDatasets, sections,
                      searchableText, deduplicationMetadata, loadMetrics, browser, calls>>
  ELSE LET cfg == updateFields(svcCfg,
                    << [key |-> "enabled", value |-> options.enableDeduplication],
                       [key |-> "caseSensitive", value |-> options.caseSensitive] >>).cfg
           applies == options.enableDeduplication
                        # browser.catalogMetadata[1].deduplicationEnabled
           u == updateWithDeduplication(getAllOriginalDatasets, cfg)
       IN /\ svcCfg' = cfg
          /\ IF applies
             THEN /\ idxCfg' = cfg
                  /\ cfgShared' = TRUE
                  /\ originalDatasets' = u.originalDatasets
                  /\ sections' = u.sections
                  /\ searchableText' = u.searchableText
                  /\ deduplicationMetadata' = u.deduplicationMetadata
             ELSE /\ idxCfg' = IF cfgShared THEN cfg ELSE idxCfg
                  /\ UNCHANGED <<cfgShared, originalDatasets, sections, searchableText,
                                 deduplicationMetadata>>
          /\ browser' =
               IF applies /\ ~u.threw
               THEN [browser EXCEPT
                       !.allSections = u.sections,
                       !.catalogMetadata =
                         ResponseMetadata(loadMetrics, cfg, u.deduplicationMetadata)]
               ELSE browser
          /\ last' = [op |-> "options", passThrew |-> applies /\ u.threw, requests |-> 0]
          /\ UNCHANGED <<bucket, loadMetrics, calls>>

NextBrowser ==
  \/ browserLoad
  \/ \E options \in Options : handleOptionsChange(options)

SpecBrowser == Init /\ [][NextBrowser]_vars

----------------------------------------------------------------------------
(* Search (reads the state, changes nothing) *)

\* the filter of search keeping every dataset, whatever its text
Matching_EveryDataset(datasets, query) == datasets

\* the datasets of a section whose searchable text includes the query
Matching(datasets, query) ==
  SelectSeq(datasets,
            LAMBDA d : /\ d.id \in DOMAIN searchableText
                       /\ searchableText[d.id] # <<>>
                       /\ Includes(searchableText[d.id], ToLowerCase(query)))

\* CatalogIndex.search(query)
RECURSIVE searchSections(_, _)
searchSections(map, query) ==
  IF map = <<>> THEN <<>>
  ELSE LET matchingDatasets == Matching(Head(map).datasets, query)
       IN (IF Len(matchingDatasets) > 0
           THEN <<[section |-> Head(map).section, datasets |-> matchingDatasets]>>
           ELSE <<>>) \o searchSections(Tail(map), query)

search(query) ==
  LET results == searchSections(sections, query)
  IN [threw |-> FALSE, sections |-> results, totalResults |-> Len(Flatten(results)),
      deduplicationEnabled |-> FALSE]

\* applyDeduplicationToList(datasets); throws where normalizeTitle does
applyDeduplicationToList(datasets) ==
  IF ~idxCfg.enabled THEN [threw |-> FALSE, datasets |-> datasets]
  ELSE IF \E i \in 1..Len(datasets) : normalizeTitleThrows(datasets[i].title)
  THEN [threw |-> TRUE, datasets |-> <<>>]
  ELSE LET groups == titleGroups(idxCfg, datasets, 1, <<>>)
       IN [threw |-> FALSE,
           datasets |-> [g \in 1..Len(groups) |->
                           datasets[selectDatasetToKeep(idxCfg, datasets, groups[g].members)]]]

\* options of a search: deduplicate absent (<<>>) or given (<<TRUE>>, <<FALSE>>)
SearchOptions == {<<>>, <<TRUE>>, <<FALSE>>}

\* CatalogIndex.searchWithDeduplication(query, options)
searchWithDeduplication(query, options) ==
  LET deduplicate == IF options = <<>> THEN idxCfg.enabled ELSE options[1]
      baseResults == search(query)
      perSection == [k \in 1..Len(baseResults.sections) |->
                       applyDeduplicationToList(baseResults.sections[k].datasets)]
      deduplicatedSections ==
        [k \in 1..Len(baseResults.sections) |->
           [section |-> baseResults.sections[k].section,
            datasets |-> perSection[k].datasets]]
  IN IF ~deduplicate THEN baseResults
     ELSE IF \E k \in 1..Len(perSection) : perSection[k].threw
     THEN [threw |-> TRUE, sections |-> <<>>, totalResults |-> 0,
           deduplicationEnabled |-> TRUE]
     ELSE [threw |-> FALSE,
           sections |-> deduplicatedSections,
           totalResults |-> Len(Flatten(deduplicatedSections)),
           deduplicationEnabled |-> TRUE]

\* CatalogService.search(query, options)
serviceSearch(query, options) ==
  IF svcCfg.enabled \/ (options # <<>> /\ options[1])
  THEN searchWithDeduplication(query, options)
  ELSE search(query)

\* queries tried
Queries == { <<>>, <<"x">>, <<"X">>, <<"d">>, <<"x", " ", "d">>, <<"i", "m">>, <<"z">> }

----------------------------------------------------------------------------
(* Notions the claims are stated in *)

\* the active view: the datasets of all sections taken together
View == Flatten(sections)

\* the last call was a load or an apply whose index pass returned
PassReturned == last.op \in {"load", "apply"} /\ ~last.passThrew

\* ... and it ran with deduplication enabled / disabled
EnabledPass == PassReturned /\ svcCfg.enabled
DisabledPass == PassReturned /\ ~svcCfg.enabled

\* the title a group is named by: trimmed, and lower-cased unless the
\* configuration is case-sensitive
GroupTitle(d) ==
  IF svcCfg.caseSensitive THEN Trim(d.title) ELSE ToLowerCase(Trim(d.title))

AllTitlesAreStrings ==
  \A i \in 1..Len(originalDatasets) : originalDatasets[i].title # Undefined

\* the positions of the input whose record falls in the title group of d
GroupOf(d) ==
  {i \in 1..Len(originalDatasets) : GroupTitle(originalDatasets[i]) = GroupTitle(d)}

\* lastModified a is at least b, null being older than every timestamp
AtLeast(a, b) == b = Null \/ (a # Null /\ a[1] >= b[1])

\* a list rearranged by a permutation of its positions
Permuted(list, p) == [i \in 1..Len(list) |-> list[p[i]]]

\* the datasets the last listing parses to
Loaded == [i \in 1..Len(bucket) |-> processMetadataObject(bucket[i])]

\* a dataset without its deduplication annotation
Bare(d) == [d EXCEPT !.deduplicationInfo = Null]

----------------------------------------------------------------------------
(* Claims *)

\* C1: after a load or apply that ran with deduplication enabled on an input
\* whose titles are strings, the active view holds exactly one record for each
\* distinct normalized title of the input: every title of the input has one
\* record in the view, no two records of the view share a title, and every
\* record of the view is a record of the input.
C1_OneSurvivorPerTitle ==
  (EnabledPass /\ AllTitlesAreStrings) =>
    /\ \A i \in 1..Len(originalDatasets) :
         Cardinality({k \in 1..Len(View) :
                        GroupTitle(View[k]) = GroupTitle(originalDatasets[i])}) = 1
    /\ \A k \in 1..Len(View) :
         \E i \in 1..Len(originalDatasets) : originalDatasets[i] = View[k]

\* C1 witness: an enabled pass left two title groups, one of them merged
C1_Witness ==
  /\ EnabledPass /\ AllTitlesAreStrings
  /\ \A i \in 1..Len(originalDatasets) : originalDatasets[i].isValid
  /\ last.op = "load"
  /\ Len(View) = 2
  /\ Len(originalDatasets) = 3

C3_DisableRestoresLoaded ==
  /\ (last.op = "apply" /\ ~svcCfg.enabled /\ loadMetrics.metadataFiles = Len(bucket)) =>
       /\ Len(View) = Len(Loaded)
       /\ \A i \in 1..Len(Loaded) :
            \E s \in 1..Len(sections) :
              /\ sections[s].section = Loaded[i].section
              /\ \E k \in 1..Len(sections[s].datasets) :
                   Bare(sections[s].datasets[k]) = Loaded[i]
  /\ last.op \in {"apply", "config"} => last.requests = 0

\* C3 witness: a disabled apply brought back a record that an enabled pass
\* had removed as a duplicate
C3_Witness ==
  /\ last.op = "apply" /\ ~svcCfg.enabled
  /\ \A i \in 1..Len(originalDatasets) : originalDatasets[i].isValid
  /\ Len(View) = 3
  /\ \E k \in 1..Len(View) :
       /\ View[k].deduplicationInfo # Null
       /\ View[k].deduplicationInfo[1].isDuplicate

\* C4: search("") returns totalResults = 0 and an empty sections map in
\* every state, for either deduplication setting and every option.
C4_EmptyQueryFindsNothing ==
  \A options \in SearchOptions :
    LET r == serviceSearch(<<>>, options)
    IN ~r.threw => (r.totalResults = 0 /\ r.sections = <<>>)

\* C5: after a deduplication pass, every record marked isDuplicate carries a
\* keptInsteadId that is not null and is the id of a record of the active
\* view whose isDuplicate is false.
C5_DuplicateNamesItsSurvivor ==
  EnabledPass =>
    \A i \in 1..Len(originalDatasets) :
      LET info == originalDatasets[i].deduplicationInfo
      IN (info # Null /\ info[1].isDuplicate) =>
           /\ info[1].keptInsteadId # Null
           /\ \E k \in 1..Len(View) :
                /\ View[k].id = info[1].keptInsteadId
                /\ View[k].deduplicationInfo # Null
                /\ ~View[k].deduplicationInfo[1].isDuplicate

\* C6: whenever the last load or apply ran with enabled = false, every record
\* of the active view carries deduplicationInfo = {isDuplicate: false,
\* duplicateCount: 1, keptInsteadId: null}.
C6_DisabledPassStampsRecords ==
  DisabledPass =>
    \A k \in 1..Len(View) :
      View[k].deduplicationInfo =
        << [isDuplicate |-> FALSE, duplicateCount |-> 1, keptInsteadId |-> Null] >>

\* C7: a search for which deduplication is in effect (the service
\* configuration is enabled, or the call passes deduplicate: true) returns no
\* two records with the same trimmed, lower-cased title.
C7_DeduplicatedSearchHasUniqueTitles ==
  \A query \in Queries, options \in SearchOptions :
    LET r == serviceSearch(query, options)
        found == Flatten(r.sections)
    IN (svcCfg.enabled \/ options = <<TRUE>>) /\ ~r.threw =>
         \A j, k \in 1..Len(found) :
           j # k => ToLowerCase(Trim(TemplateText(found[j].title)))
                      # ToLowerCase(Trim(TemplateText(found[k].title)))

\* C8: with deduplication enabled, every invalid record of the load stays in
\* the active view and none is marked as a duplicate (of another invalid
\* record).
C8_InvalidRecordsAreNotMerged ==
  EnabledPass =>
    \A i \in 1..Len(originalDatasets) :
      ~originalDatasets[i].isValid =>
        /\ \E k \in 1..Len(View) : View[k].id = originalDatasets[i].id
        /\ originalDatasets[i].deduplicationInfo # Null
        /\ ~originalDatasets[i].deduplicationInfo[1].isDuplicate

\* a title that is missing, or empty after trimming
Blank(title) == title = Undefined \/ Trim(title) = <<>>

\* C9: with deduplication enabled, each record whose title is missing or
\* empty forms its own group: it stays in the active view and gets
\* duplicateCount = 1.
C9_BlankTitlesAreSingletons ==
  (last.op \in {"load", "apply"} /\ svcCfg.enabled) =>
    \A i \in 1..Len(originalDatasets) :
      Blank(originalDatasets[i].title) =>
        \E k \in 1..Len(View) :
          /\ View[k].id = originalDatasets[i].id
          /\ View[k].deduplicationInfo # Null
          /\ View[k].deduplicationInfo[1].duplicateCount = 1

\* the title groups of the input with more than one member
NonSingletonGroups ==
  { GroupOf(originalDatasets[i]) : i \in 1..Len(originalDatasets) }
    \ { {i} : i \in 1..Len(originalDatasets) }

\* C10: after a pass with enabled = true, duplicatesFound is the number of
\* title groups of more than one record.
C10_DuplicatesFoundCountsGroups ==
  (EnabledPass /\ AllTitlesAreStrings) =>
    deduplicationMetadata.duplicatesFound = Cardinality(NonSingletonGroups)

----------------------------------------------------------------------------
(* Claims on the counters and annotations of a pass *)

\* the list the last load or apply gave to the index (an apply gives it the
\* values of originalDatasets, whose ids the pass does not change)
PassInput == IF last.op = "load" THEN Loaded ELSE originalDatasets

DistinctIds(list) ==
  \A i, j \in 1..Len(list) : list[i].id = list[j].id => i = j

\* the number of title groups of the input
TitleGroupCount == Cardinality({GroupTitle(PassInput[i]) : i \in 1..Len(PassInput)})

\* duplicatesRemoved is the input length minus the survivors, the sum over
\* the groups of (size - 1), and the length of getRemovedDuplicates()
ConservesRecords ==
  /\ deduplicationMetadata.duplicatesRemoved = Len(PassInput) - Len(View)
  /\ deduplicationMetadata.duplicatesRemoved = Len(PassInput) - TitleGroupCount
  /\ deduplicationMetadata.duplicatesRemoved = Len(deduplicationMetadata.removedDuplicates)

GroupSize(d) ==
  Cardinality({i \in 1..Len(PassInput) : GroupTitle(PassInput[i]) = GroupTitle(d)})

HasGroupSize(d) ==
  /\ d.deduplicationInfo # Null
  /\ d.deduplicationInfo[1].duplicateCount = GroupSize(d)

----------------------------------------------------------------------------
(* Claims on repeated and failing calls *)

\* C13: an apply that follows an apply, with the configuration and the loaded
\* data unchanged in between, leaves sections, originalDatasets,
\* searchableText and deduplicationMetadata (counters and removed-duplicates
\* list) as the first apply left them, for either value of enabled.
C13_ApplyTwiceIsApplyOnce ==
  [][(last.op = "apply" /\ applyDeduplicationCall) =>
       /\ sections' = sections
       /\ originalDatasets' = originalDatasets
       /\ searchableText' = searchableText
       /\ deduplicationMetadata' = deduplicationMetadata]_vars

\* C13 witness: the state an apply with enabled = true left, with a duplicate
\* removed, which a second apply is taken from and leads back to
C13_Witness ==
  /\ last.op = "apply" /\ ~last.passThrew /\ svcCfg.enabled
  /\ deduplicationMetadata.duplicatesRemoved > 0
  /\ Len(View) > 1

\* the raw view: the index that update() builds from every loaded dataset
RawView == update(originalDatasets)

\* the results of search(query) on the raw view
RawResults(query) ==
  SelectSeq(Flatten(RawView.sections),
            LAMBDA d : Includes(RawView.searchableText[d.id], ToLowerCase(query)))

\* the results of search(query, options) on the active view
Results(query, options) == Flatten(serviceSearch(query, options).sections)

\* the ids of the records the last pass removed
RemovedIds ==
  {deduplicationMetadata.removedDuplicates[k].id :
     k \in 1..Len(deduplicationMetadata.removedDuplicates)}

NoRemovedRecordIsFound ==
  \A query \in Queries, options \in SearchOptions :
    \A k \in 1..Len(Results(query, options)) :
      Results(query, options)[k].id \notin RemovedIds

\* C14: after deduplication was switched on and applied, search(q) returns at
\* most as many results as search(q) on the raw view, as many only when no
\* title group has more than one record among the raw results, and no record
\* removed as a duplicate is in any search result.
C14_SearchShrinksWithTheView ==
  EnabledPass =>
    /\ \A query \in Queries :
         LET raw == RawResults(query)
             found == Results(query, <<>>)
         IN /\ Len(found) <= Len(raw)
            /\ Len(found) = Len(raw) =>
                 \A i, j \in 1..Len(raw) :
                   GroupTitle(raw[i]) = GroupTitle(raw[j]) => i = j
    /\ NoRemovedRecordIsFound

\* C14 witness: after an enabled pass one query finds fewer records than on
\* the raw view and another finds the same records, one of them the survivor
\* of a group whose removed member the query does not match
C14_Witness ==
  /\ EnabledPass
  /\ \A i \in 1..Len(originalDatasets) : originalDatasets[i].isValid
  /\ \E query \in Queries : Len(Results(query, <<>>)) < Len(RawResults(query))
  /\ \E query \in Queries :
       /\ Len(Results(query, <<>>)) = Len(RawResults(query))
       /\ \E i \in 1..Len(RawResults(query)) : GroupSize(RawResults(query)[i]) > 1

\* C14 with equality only when no title group of more than one member has a
\* record among the raw results
C14_SearchShrinksForEveryGroupFound ==
  EnabledPass =>
    /\ \A query \in Queries :
         LET raw == RawResults(query)
             found == Results(query, <<>>)
         IN /\ Len(found) <= Len(raw)
            /\ Len(found) = Len(raw) =>
                 \A i \in 1..Len(raw) : GroupSize(raw[i]) = 1
    /\ NoRemovedRecordIsFound

InvalidArgument(obj) ==
  \/ ~obj.isObject
  \/ obj.strategy # "title-based"
  \/ \E f \in {"enabled", "keepLatest", "caseSensitive"} : obj[f] \notin {"true", "false"}

NamesUnknownField(updates) ==
  \E k \in 1..Len(updates) :
    updates[k].key \notin {"enabled", "strategy", "keepLatest", "caseSensitive"}

\* C17: an incremental update with an unknown field (or an invalid value)
\* leaves every field of the configuration as it was, and the configuration
\* of the service and of the index satisfies the validation rules in every
\* state.
C17_FailedUpdateChangesNothing ==
  /\ [][\A updates \in Updates :
          (NamesUnknownField(updates) /\ updateDeduplicationConfig(updates)) =>
            UNCHANGED <<svcCfg, idxCfg>>]_vars
  /\ [](svcCfg \in ValidConfigs /\ idxCfg \in ValidConfigs)

\* C18: apply never throws, for either value of enabled and whatever the
\* loaded datasets, records without a title included; on an index that holds
\* no loaded data it leaves the sections empty.
C18_ApplyNeverThrows ==
  last.op = "apply" =>
    /\ ~last.passThrew
    /\ (originalDatasets = <<>> => sections = <<>>)

\* the index describes the list it was given
Describes(datasets, original, view, text, metadata) ==
  /\ {original[i].id : i \in 1..Len(original)} = {datasets[i].id : i \in 1..Len(datasets)}
  /\ \A k \in 1..Len(view) : \E i \in 1..Len(original) : original[i] = view[k]
  /\ DOMAIN text = {view[k].id : k \in 1..Len(view)}
  /\ metadata.enabled = svcCfg.enabled

\* C19: a load or apply on the index is all-or-nothing: when it throws,
\* originalDatasets, sections, searchableText, deduplicationMetadata and the
\* index's configuration are as before the call; when it returns, all of
\* them describe the list it was given.
C19_IndexPassIsAllOrNothing ==
  [][((loadCatalog /\ Len(bucket) > 0) \/ applyDeduplicationCall) =>
       IF last'.passThrew
       THEN UNCHANGED <<originalDatasets, sections, searchableText,
                        deduplicationMetadata, idxCfg>>
       ELSE Describes(IF last'.op = "load" THEN Loaded ELSE originalDatasets,
                      originalDatasets', Flatten(sections'), searchableText',
                      deduplicationMetadata')]_vars

\* C20: a record with no section is indexed without a throw, is found in the
\* section "unsectioned" of the active view and stays searchable; every
\* other record is under its own section.
C20_NoSectionGoesToUnsectioned ==
  (PassReturned /\ ~svcCfg.enabled /\ last.op = "load") =>
    \A i \in 1..Len(Loaded) :
      \E s \in 1..Len(sections) :
        /\ sections[s].section =
             (IF Loaded[i].section = NullSection THEN "unsectioned"
              ELSE Loaded[i].section)
        /\ \E k \in 1..Len(sections[s].datasets) :
             /\ sections[s].datasets[k].id = Loaded[i].id
             /\ Loaded[i].id \in DOMAIN searchableText

\* the searchable text of a record contains the query, letter case ignored
MatchesQuery(d, q) == Includes(TextOf(d), ToLowerCase(q))

\* C21: search(q, {deduplicate: false}) returns every record of the most
\* recent load, all versions, whose text contains q, and reports
\* deduplicationEnabled = false, whatever configuration the service holds and
\* whatever view is active.
C21_RawSearchFindsAllVersions ==
  PassReturned =>
    \A q \in Queries \ {<<>>} :
      LET r == serviceSearch(q, <<FALSE>>)
          found == Flatten(r.sections)
      IN /\ ~r.threw
         /\ r.deduplicationEnabled = FALSE
         /\ {found[k].id : k \in 1..Len(found)} =
              {originalDatasets[i].id : i \in
                 {j \in 1..Len(originalDatasets) : MatchesQuery(originalDatasets[j], q)}}

\* positions i and j of the input of the last pass are members of one group of
\* the titleGroups Map
InSameGroup(i, j) ==
  LET groups == titleGroups(svcCfg, PassInput, 1, <<>>)
  IN \E g \in 1..Len(groups) :
       /\ \E k \in 1..Len(groups[g].members) : groups[g].members[k] = i
       /\ \E k \in 1..Len(groups[g].members) : groups[g].members[k] = j

\* the titles differ, after trimming, in letter case only
DifferInCaseOnly(a, b) ==
  /\ Trim(a) # Trim(b)
  /\ ToLowerCase(Trim(a)) = ToLowerCase(Trim(b))

\* the record is in the active view, marked as the only one of its group
AloneInView(d) ==
  \E k \in 1..Len(View) :
    /\ View[k].id = d.id
    /\ View[k].deduplicationInfo =
         << [isDuplicate |-> FALSE, duplicateCount |-> 1, keptInsteadId |-> Null] >>

\* C22: two records fall in the same title group iff their titles are equal
\* after trimming and, unless caseSensitive, lower-casing; with caseSensitive
\* two records whose titles differ only in letter case (and are shared with no
\* third record) both stay in the active view with duplicateCount = 1.
C22_GroupsFollowNormalizedTitle ==
  EnabledPass =>
    \A i, j \in 1..Len(PassInput) :
      /\ InSameGroup(i, j) <=>
           (IF svcCfg.caseSensitive
            THEN Trim(PassInput[i].title) = Trim(PassInput[j].title)
            ELSE ToLowerCase(Trim(PassInput[i].title))
                   = ToLowerCase(Trim(PassInput[j].title)))
      /\ (/\ svcCfg.caseSensitive
          /\ DifferInCaseOnly(PassInput[i].title, PassInput[j].title)
          /\ GroupSize(PassInput[i]) = 1
          /\ GroupSize(PassInput[j]) = 1)
         => (AloneInView(PassInput[i]) /\ AloneInView(PassInput[j]))

\* C22 witness: a case-sensitive pass kept both of two records whose titles
\* differ in letter case only
C22_Witness ==
  /\ EnabledPass
  /\ svcCfg.caseSensitive
  /\ \E i, j \in 1..Len(PassInput) :
       /\ DifferInCaseOnly(PassInput[i].title, PassInput[j].title)
       /\ ~InSameGroup(i, j)
       /\ AloneInView(PassInput[i])
       /\ AloneInView(PassInput[j])

\* C23: the datasets one loadCatalog produces from a listing of pairwise
\* distinct keys have pairwise distinct ids, whether a payload parses (id =
\* key without the .metadata.json suffix) or not (id = the key).
C23_LoadedIdsAreDistinct ==
  (last.op = "load" /\ Len(bucket) > 0) =>
    /\ \A i, j \in 1..Len(bucket) : bucket[i].Key = bucket[j].Key => i = j
    /\ DistinctIds(Loaded)
    /\ Len(originalDatasets) = Len(bucket)

\* fetching or parsing the object fails
Failed(obj) == obj.content = Unfetched \/ ~obj.content.json

\* the catalog holds a record for the object, flagged invalid
ShownInvalid(obj) ==
  \E i \in 1..Len(originalDatasets) :
    /\ originalDatasets[i].id \in {obj.Key, StripSuffix(obj.Key)}
    /\ ~originalDatasets[i].isValid

\* C24: a loadCatalog in which fetching or parsing a metadata object fails
\* still resolves; every failing object has a record with isValid = false,
\* invalidDatasets counts the failing objects, and validDatasets +
\* invalidDatasets is the number of metadata objects; with deduplication
\* enabled as well as disabled.
C24_FailedObjectsAreKeptInvalid ==
  (last.op = "load" /\ Len(bucket) > 0) =>
    /\ ~last.passThrew
    /\ \A i \in 1..Len(bucket) : Failed(bucket[i]) => ShownInvalid(bucket[i])
    /\ loadMetrics.invalidDatasets =
         Cardinality({i \in 1..Len(bucket) : Failed(bucket[i])})
    /\ loadMetrics.validDatasets + loadMetrics.invalidDatasets = Len(bucket)

\* the records of a list that carry the id
WithId(list, id) == SelectSeq(list, LAMBDA d : d.id = id)

\* position j holds the last record of the loaded list with its id, and an
\* earlier record has the same id
LastOfRepeatedId(j) ==
  /\ \E i \in 1..(j - 1) : Loaded[i].id = Loaded[j].id
  /\ \A k \in (j + 1)..Len(Loaded) : Loaded[k].id # Loaded[j].id

\* C25: a load whose list repeats an id does not throw and is last-write-wins:
\* originalDatasets holds one record with that id, the later one, the active
\* view holds no other record with that id, exactly that one when
\* deduplication is disabled, and an apply right after the load, under the
\* same configuration, leaves the view as the load left it.
C25_RepeatedIdIsLastWriteWins ==
  /\ [](last.op = "load" =>
         \A j \in 1..Len(Loaded) :
           LastOfRepeatedId(j) =>
             /\ ~last.passThrew
             /\ Len(WithId(originalDatasets, Loaded[j].id)) = 1
             /\ Bare(WithId(originalDatasets, Loaded[j].id)[1]) = Loaded[j]
             /\ Len(WithId(View, Loaded[j].id)) <= 1
             /\ \A k \in 1..Len(View) :
                  View[k].id = Loaded[j].id => Bare(View[k]) = Loaded[j]
             /\ ~svcCfg.enabled => Len(WithId(View, Loaded[j].id)) = 1)
  /\ [][(last.op = "load" /\ ~last.passThrew /\ ~DistinctIds(Loaded)
          /\ applyDeduplicationCall)
        => sections' = sections]_vars

\* getRemovedDuplicates()
getRemovedDuplicates == deduplicationMetadata.removedDuplicates

\* isDatasetDuplicate answering for the first removed record only
isDatasetDuplicate_FirstOnly(datasetId) ==
  /\ Len(getRemovedDuplicates) > 0
  /\ getRemovedDuplicates[1].id = datasetId

\* isDatasetDuplicate(datasetId)
isDatasetDuplicate(datasetId) ==
  \E k \in 1..Len(getRemovedDuplicates) : getRemovedDuplicates[k].id = datasetId

\* getKeptInsteadOf(duplicateId)
getKeptInsteadOf(duplicateId) ==
  LET found == SelectSeq(getRemovedDuplicates, LAMBDA removed : removed.id = duplicateId)
  IN IF found = <<>> THEN Null ELSE found[1].keptInsteadId

InView(id) == \E k \in 1..Len(View) : View[k].id = id

\* the accessors answer for every loaded id as the active view has it
AccessorsAgreeWithView ==
  \A i \in 1..Len(originalDatasets) :
    LET d == originalDatasets[i]
    IN /\ isDatasetDuplicate(d.id) <=> ~InView(d.id)
       /\ InView(d.id) => getKeptInsteadOf(d.id) = Null
       /\ ~InView(d.id) =>
            \E k \in 1..Len(View) :
              /\ View[k].id = getKeptInsteadOf(d.id)
              /\ GroupTitle(View[k]) = GroupTitle(d)

\* nothing is reported as removed
NothingRemoved ==
  /\ getRemovedDuplicates = <<>>
  /\ \A i \in 1..Len(originalDatasets) : ~isDatasetDuplicate(originalDatasets[i].id)

C27_OptionsChangeReapplies ==
  (last.op = "options" /\ browser.isLoaded /\ ~last.passThrew) =>
    LET u == updateWithDeduplication(originalDatasets, svcCfg)
    IN ~u.threw =>
         /\ browser.allSections = u.sections
         /\ browser.catalogMetadata =
              ResponseMetadata(loadMetrics, svcCfg, u.deduplicationMetadata)

\* C28: in every state the public operations of the service reach, after an
\* operation that threw as well, every record of the active view is a record
\* held in originalDatasets and has an entry in the searchable-text map.
C28_ViewIsPartOfOriginals ==
  \A k \in 1..Len(View) :
    /\ \E i \in 1..Len(originalDatasets) :
         /\ originalDatasets[i].id = View[k].id
         /\ Bare(originalDatasets[i]) = Bare(View[k])
    /\ View[k].id \in DOMAIN searchableText

\* getDatasets()
getDatasets == sections

\* the sections of the response of the loadCatalog that just resolved:
\* _createEmptyResponse() for a listing without metadata files
ResponseSections == IF Len(bucket) = 0 THEN <<>> ELSE sections

\* C29: when loadCatalog resolves, the index agrees with the response:
\* getDatasets() returns the sections of the response, search returns only
\* records of that load, and after an empty listing the deduplication
\* metadata of an earlier pass is gone.
C29_ResolvedLoadLeavesFreshIndex ==
  (last.op = "load" /\ ~last.passThrew) =>
    /\ getDatasets = ResponseSections
    /\ \A q \in Queries :
         LET r == serviceSearch(q, <<>>)
             found == Flatten(r.sections)
         IN ~r.threw =>
              \A k \in 1..Len(found) :
                \E i \in 1..Len(Loaded) : Loaded[i].id = found[k].id
    /\ Len(bucket) = 0 => deduplicationMetadata = EmptyMetadata

\* a response built now is self-consistent: the datasets of its sections and
\* duplicatesRemoved add up to totalDatasets, and deduplicationEnabled says
\* whether the sections were deduplicated
ConsistentResponse ==
  /\ Len(View) + deduplicationMetadata.duplicatesRemoved
       = loadMetrics.validDatasets + loadMetrics.invalidDatasets
  /\ svcCfg.enabled = deduplicationMetadata.enabled

AllSettled == \A p \in Loads : calls.pc[p] \in {"done", "failed"}

\* the index and loadMetrics hold the data of call p
ComesFrom(p) ==
  /\ [i \in 1..Len(originalDatasets) |-> Bare(originalDatasets[i])]
       = MapById(calls.datasets[p], <<>>)
  /\ \A k \in 1..Len(View) :
       \E i \in 1..Len(calls.datasets[p]) : calls.datasets[p][i] = Bare(View[k])
  /\ loadMetrics.metadataFiles = Len(calls.objects[p])

\* the call that settled last, and the call that resolved last
SettledLast == calls.settled[Len(calls.settled)].load
Resolved == SelectSeq(calls.settled, LAMBDA c : c.resolved)

\* C30: whatever the interleaving of two overlapping loadCatalog calls with
\* setDeduplicationConfig and applyDeduplication, every response returned is
\* self-consistent, and once both loads, the second called while the first
\* was in flight, have settled, the index's
\* originalDatasets, sections and loadMetrics all come from the load that
\* completed last (the last to settle, or the last to resolve).
C30_OverlappingLoadsStayConsistent ==
  /\ [][(((\E p \in Loads : loadFinish(p)) \/ applyDeduplicationCall)
           /\ ~last'.passThrew) => ConsistentResponse']_vars
  /\ []((AllSettled /\ calls.overlapped) =>
          \/ ComesFrom(SettledLast)
          \/ Resolved # <<>> /\ ComesFrom(Resolved[Len(Resolved)].load))

====
